---------------------------- MODULE Spec2Model ----------------------------
(***************************************************************************)
(* Model of the antgen geometry-perturbation optimizer (bfix/antgen).      *)
(*                                                                         *)
(* Part I  : the stochastic optimizer  (cmd/antgen/model_bend2D.go and     *)
(*           the optimize closure of cmd/antgen/main.go), specification    *)
(*           Spec; SpecConv is the same flow under the default progress    *)
(*           check of lib.Cfg.                                             *)
(* Part II : the 3-D wire geometry and its repair (lib/antenna.go,         *)
(*           lib/geometry.go), specification SpecGeo.                      *)
(* Part III: pure library functions (Regions, Comparator.Compare,          *)
(*           BendMax), specification SpecFn.                               *)
(* Part IV : a run from the comparator specification on (NewComparator,    *)
(*           lazy evaluation of the targets), specification SpecCmp.       *)
(* Part V  : a run with visualization (the SDL canvas, its render          *)
(*           goroutine and key handler), specification SpecVis.            *)
(* Part VI : the registry of geometry generators (lib/generator.go),       *)
(*           specification SpecGen.                                        *)
(* Part VII: the optimizer followed to the end of every stage, under       *)
(*           weak fairness of its steps, specification SpecLive.           *)
(* Part VIII: the end of a run with visualization (the window is closed,   *)
(*           main reads the results and closes the canvas),                *)
(*           specification SpecQuit.                                       *)
(*                                                                         *)
(* Numbers.  Angles are integers in units of 30 degrees (12 units are a    *)
(* full circle); cosines of such angles are kept exactly as (a + b*sqrt 3) *)
(* / 2.  Target values (gains) are integers in units of 0.00005 dB, feed   *)
(* resistances are integers in units of 0.5 Ohm.  The comparator's epsilon *)
(* of 1e-9 is far below one unit, so "chg > eps" is "chg >= 1 unit".       *)
(***************************************************************************)
EXTENDS Integers, Sequences, FiniteSets, TLC

VARIABLES
    (* ---- Part I: optimizer ---- *)
    cfg,        \* lib.Cfg.Sim: the simulation parameters in force
    targets,    \* Comparator.targets: the stages of the comparator
    iter,       \* command line -iter: cap on accepted steps (0 = none)
    cmpPos,     \* Comparator.pos: the cursor into targets
    Nodes,      \* ModelDipole.Nodes: theta of every joint of the leg
    best,       \* ModelBend2D.best: antenna with best performance
    Track,      \* ModelDipole.Track: the list of changes
    pc,         \* position of the main flow
    pos,        \* optBend: pending joint index (-1 = none)
    tries,      \* optBend: evaluations since the last progress check
    maxTries,   \* optBend: largest tries seen at a progress check
    steps,      \* optBend: accepted steps of the stage
    sims,       \* optBend: evaluations of the stage
    lastVal,    \* optBend: target value at the last progress check
    ant,        \* main: the antenna variable the result is read from
    err,        \* main: the error variable
    total,      \* main: accumulated statistics
    iniPerf,    \* main: performance of the initial geometry
    term,       \* observer: how the last stage ended
    bestIn,     \* observer: mdl.best when the running stage started
    acc,        \* observer: every accepted step / evaluation made in optBend
    evals,      \* observer: evaluator calls made so far (Prepare included)
    leg0,       \* observer: the leg the generator produced
    gainTop,    \* environment: largest target value the evaluator returns
    simCap,     \* environment: evaluations in optBend the model follows
    rejCap,     \* environment: evaluator answers without improvement the
                \*              model follows
    seed,       \* command line -seed
    rnd,        \* ModelBend2D.rnd: state of the seeded randomizer
    rejSince,   \* observer: candidates evaluated but not accepted since the
                \*           last accepted step of the stage
    chkSims,    \* observer: sims at the last progress check of the stage
    blockBase,  \* observer: target value of best when the running block of
                \*           ProgressCheck accepted steps began
    blockGain,  \* observer: improvement over the last completed block
    (* ---- Part II: geometry ---- *)
    gpc,        \* position of the geometry flow
    gnodes,     \* leg handed to BuildAntenna
    gant,       \* the built (and repaired) antenna
    gant0,      \* observer: the antenna before the repair pass
    gant2,      \* the antenna after one more repair pass
    (* ---- Part III: library functions ---- *)
    fpc,        \* the library function that was called ("idle" before)
    fin,        \* the arguments of the call
    fout,       \* the value the call returned
    (* ---- Part IV: the comparator specification ---- *)
    optS,       \* command line -opt: the stages as <<target, argument>>
    args,       \* Comparator.args: the argument kept for a target name
    (* ---- Part V: visualization ---- *)
    outbox,     \* optimizer: the snapshots its callback still has to hand to
                \*            render.Show (it is blocked while there is one)
    made,       \* observer: number of snapshots the callback was called with
    cpc,        \* render goroutine: position in its loop
    ctask,      \* render goroutine: the task it received
    currTask,   \* SDLCanvas.curr: the task on display
    count,      \* SDLCanvas.count: number of tasks processed
    waiting,    \* SDLCanvas.waiting: pause rendering?
    stepper,    \* SDLCanvas.stepper: single-step?
    kpc,        \* main thread: position in Run and in the key handler
    kval,       \* key handler: the value of waiting it loaded
    keys,       \* environment: keys pressed so far
    shown,      \* observer: the tasks put on display, in order
    (* ---- Part VI: generators ---- *)
    gens,       \* lib.gens: the registered generator instances, by name
    genSel,     \* the generator GetGenerator returned last (its name)
    genPc,      \* position of the caller of the generator
    genInits,   \* observer: calls of GetGenerator so far
    genCall,    \* observer: the arguments of the call of Nodes
    genLeg,     \* the leg Nodes returned
    (* ---- Part VIII: the end of a run with visualization ---- *)
    chan,       \* SDLCanvas.taskCh: "open", "closed", or "panic" after a
                \*                   send on the closed channel
    report      \* main: the results it read for its output

optVars == <<cfg, targets, iter, cmpPos, Nodes, best, Track, pc, pos, tries,
             maxTries, steps, sims, lastVal, ant, err, total, iniPerf, term,
             bestIn, acc, evals, leg0, gainTop, simCap, rejCap, seed, rnd,
             rejSince, chkSims, blockBase, blockGain>>
geoVars == <<gpc, gnodes, gant, gant0, gant2>>
fnVars == <<fpc, fin, fout>>
\* the variables outside the optimizer and the geometry
cmpVars == <<optS, args>>
visVars == <<outbox, made, cpc, ctask, currTask, count, waiting, stepper, kpc,
             kval, keys, shown>>
genVars == <<gens, genSel, genPc, genInits, genCall, genLeg>>
mainVars == <<chan, report>>
extVars == <<fnVars, cmpVars, visVars, genVars, mainVars>>
vars == <<optVars, geoVars, extVars>>

-----------------------------------------------------------------------------
(* Bounds of the model *)

\* largest target value (gain) the evaluator returns in the short scenarios
MaxGain == 3
\* evaluations inside optBend that the short scenarios follow
MaxSims == 6
\* the same two bounds for the scenario with the default progress check
MaxGainConv == 40
MaxSimsConv == 21
\* evaluations without improvement that this scenario follows
MaxRejectsConv == 1

-----------------------------------------------------------------------------
(* Small helpers *)

Abs(x) == IF x < 0 THEN -x ELSE x
Max2(a, b) == IF a >= b THEN a ELSE b
Min2(a, b) == IF a <= b THEN a ELSE b

\* the absent value of a Go pointer
Nil == "nil"
\* a float64 that may be math.NaN(): NaN, or the number v
NaN == [nan |-> TRUE, v |-> 0]
Float(x) == [nan |-> FALSE, v |-> x]

-----------------------------------------------------------------------------
(* Part I -- configuration and scenarios *)

\* lib.Cfg.Sim.MinBend as a percentage (0.01)
MinBendPct == 1
\* number of angle units in a full circle (lib.CircAng)
CircAng == 12
\* mdl.bendMax = lib.BendMax(MinRadius*lambda, SegL) = Pi / ceil(U / segL);
\* the scenarios use a wire with ceil(U / segL) = 1, i.e. Pi = 6 units
bendMax == 6
\* mdl.bendStep = mdl.bendMax / 3
bendStep == bendMax \div 3

\* track.go: marker entry of the track list
TRK_MARK == -1

\* feed resistances the evaluator returns: 0.5 Ohm, 50 Ohm, 20000.5 Ohm
ZrValues == {1, 100, 40001}

\* Performance of an antenna whose evaluation failed (Perf left incomplete);
\* ok tells a completed evaluation from a failed one
NoPerf == [ok |-> FALSE, Gmax |-> 0, Zr |-> 0]
\* the error of ant.Eval
Failure == "EvalError"
\* a nil *Antenna
NilAnt == [nodes |-> << >>, perf |-> NoPerf]

\* Simulation parameters. CfgShort: progress check every 2 accepted steps,
\* MinChange 0.00015.  CfgDefault: the defaults of lib.Cfg with MinChange
\* 0.001 = 20 units, ProgressCheck 10 and MaxRounds 5.
CfgShort == [MaxRounds |-> 2, MinZr |-> 2, MaxZr |-> 40000,
             MinChange |-> 3, ProgressCheck |-> 2]
CfgDefault == [MaxRounds |-> 5, MinZr |-> 2, MaxZr |-> 40000,
               MinChange |-> 20, ProgressCheck |-> 10]

\* comparator specifications (-opt) of the scenarios
TargetLists == { <<"Gmax">>, <<"none">>, <<"Gmax", "none">>, <<"none", "Gmax">> }

\* legs the generator hands to Prepare (a straight and a bent one)
GenLegs == { <<0, 0>>, <<1, -1>> }

\* seeds of the scenarios
Seeds == { 0, 21, 38 }
\* the randomizer has RndMod states
RndMod == 64

\* lib.Randomizer: the state a seed puts the randomizer in
Randomizer(sd) == sd % RndMod
\* the randomizer's state after one draw (a full-period congruential
\* generator stands for math/rand: deterministic given the seed)
NextRnd(r) == (13 * r + 7) % RndMod
\* rnd.Intn(n) read from the state reached by the draw
Intn(r, n) == (r \div 4) % n
\* 2 * (rnd.Float64() - 0.5) * bendStep read from the state reached by the
\* draw: Float64 lies in [0, 1), so the change lies in [-bendStep, bendStep)
DeltaOf(r) == ((r \div 16) % (2 * bendStep)) - bendStep

\* Number of joints of the leg (mdl.Num)
Num == Len(Nodes)

-----------------------------------------------------------------------------
(* Part I -- pure functions *)

\* 2*cos(k * 30 degrees) as <<a, b>> meaning a + b*sqrt(3)
Cos2(k) ==
    LET m == k % CircAng
    IN  CASE m = 0 -> <<2, 0>>
          [] m = 1 \/ m = 11 -> <<0, 1>>
          [] m = 2 \/ m = 10 -> <<1, 0>>
          [] m = 3 \/ m = 9 -> <<0, 0>>
          [] m = 4 \/ m = 8 -> <<-1, 0>>
          [] m = 5 \/ m = 7 -> <<0, -1>>
          [] OTHER -> <<-2, 0>>

\* a + b*sqrt(3) < 0, decided exactly
NegSurd(a, b) ==
    \/ a < 0 /\ b <= 0
    \/ a <= 0 /\ b < 0
    \/ a < 0 /\ b > 0 /\ a * a > 3 * b * b
    \/ a > 0 /\ b < 0 /\ 3 * b * b > a * a

\* ModelBend2D.checkGeometry: walking the leg from (d/2, 0), the
\* x-coordinate of no segment end may drop below d/2.  All segments have the
\* same length, so end[0] < d/2 iff the running sum of cosines is negative.
RECURSIVE checkFrom(_, _, _, _, _)
checkFrom(nodes, i, dir, xa, xb) ==
    IF i > Len(nodes) THEN TRUE
    ELSE LET d2 == dir + nodes[i]
             c  == Cos2(d2)
             na == xa + c[1]
             nb == xb + c[2]
         IN  IF NegSurd(na, nb) THEN FALSE
             ELSE checkFrom(nodes, i + 1, d2, na, nb)

checkGeometry(nodes) == checkFrom(nodes, 1, 0, 0, 0)

\* Node.AddAngles on joint p (0-based) of a leg
AddAngles(nodes, p, dw) == [nodes EXCEPT ![p + 1] = @ + dw]

\* lib.Changes: one change per joint whose angle is not null
RECURSIVE ChangesFrom(_, _)
ChangesFrom(nodes, i) ==
    IF i > Len(nodes) THEN << >>
    ELSE (IF nodes[i] # 0 THEN << [Pos |-> i - 1, Theta |-> nodes[i]] >> ELSE << >>)
         \o ChangesFrom(nodes, i + 1)

Changes(nodes) == ChangesFrom(nodes, 1)

\* TrackList.Nodes: replay a track list on a straight leg of num joints
RECURSIVE ApplyTrack(_, _, _)
ApplyTrack(nodes, track, i) ==
    IF i > Len(track) THEN nodes
    ELSE IF track[i].Pos = -1 THEN ApplyTrack(nodes, track, i + 1)
    ELSE ApplyTrack([nodes EXCEPT ![track[i].Pos + 1] = @ + track[i].Theta],
                    track, i + 1)

TrackNodes(track, num) == ApplyTrack([k \in 1..num |-> 0], track, 1)

\* a Comparator.value in which the target "none" is evaluated like Gmax
valueNoneAsGmax(target, p) ==
    p.Gmax

\* Comparator.value: the standard evaluation of a target (raw mode)
value(target, p) ==
    CASE target = "Gmax" -> p.Gmax
      [] target = "none" -> 0

\* the mode arguments Comparator.value knows for Gmax and Gmean
GainModes == { "", "raw", "unmatched", "matched", "resonant" }
\* a mode argument it does not know
BadMode == "bogus"
\* a target name it does not know
BadTarget == "Gmin"

\* Comparator.value: the stage ends in log.Fatalf
ValueFatal(target, arg) ==
    \/ target \notin { "Gmax", "Gmean", "SD", "Z", "none" }
    \/ target \in { "Gmax", "Gmean" } /\ arg \notin GainModes

\* Comparator.Value: args := cmp.args[target] (a Go map gives "" for a
\* key it does not hold)
ArgOf(target) == IF target \in DOMAIN args THEN args[target] ELSE ""

\* the stage the cursor is on ends in log.Fatalf when it is evaluated
StageFatal == ValueFatal(targets[cmpPos + 1], ArgOf(targets[cmpPos + 1]))

\* Comparator.Value: the value under the stage the cursor is on
Value(p) == value(targets[cmpPos + 1], p)

\* a comparison that calls an unchanged value better
CompareNoGain(curr, old) ==
    LET val == Value(curr)
        chg == val - Value(old)
    IN  << IF chg >= 0 THEN 1 ELSE -1, val >>

\* Comparator.Compare: <<sign, val>>
Compare(curr, old) ==
    LET val == Value(curr)
        chg == val - Value(old)
    IN  << IF chg >= 1 THEN 1 ELSE IF chg <= -1 THEN -1 ELSE 0, val >>

\* Antenna.Eval (the external evaluator): the performances it may produce
\* for a geometry, and its failure.  The evaluator is a black box; the model
\* lets it return any target value from one below to two above ref, and at
\* most rejCap answers that are no improvement.
EvalResults(ref) ==
    LET low == IF acc.sims - acc.steps < rejCap THEN ref - 1 ELSE ref + 1
    IN  { [ok |-> TRUE, Gmax |-> g, Zr |-> z] :
            g \in { x \in 0..gainTop : x >= low /\ x <= ref + 2 },
            z \in ZrValues }
        \cup { NoPerf }

\* ModelBend2D.eval: BuildAntenna on the current nodes plus ant.Eval; the
\* antenna is represented by the leg it was built from and its performance
eval(nodes, res) ==
    [nodes |-> nodes, perf |-> res]

-----------------------------------------------------------------------------
(* Part I -- the main flow *)

\* the part of the initial state that no scenario changes
InitRun ==
    /\ rnd = 0
    /\ cmpPos = 0
    /\ Nodes = << >>
    /\ best = NilAnt
    /\ Track = << >>
    /\ pc = "main"
    /\ pos = -1
    /\ tries = 0
    /\ maxTries = 0
    /\ steps = 0
    /\ sims = 0
    /\ lastVal = NaN
    /\ ant = NilAnt
    /\ err = Nil
    /\ total = [NumMthds |-> 0, NumSteps |-> 0, NumSims |-> 0]
    /\ iniPerf = NoPerf
    /\ term = "None"
    /\ bestIn = NilAnt
    /\ acc = [steps |-> 0, sims |-> 0]
    /\ evals = 0
    /\ leg0 = << >>
    /\ rejSince = 0
    /\ chkSims = 0
    /\ blockBase = 0
    /\ blockGain = NaN

\* State after construction: GetModel, NewComparator, nothing prepared yet.
InitOpt ==
    /\ cfg = CfgShort
    /\ gainTop = MaxGain
    /\ simCap = MaxSims
    /\ rejCap = MaxSims
    /\ iter \in {0, 2}
    /\ targets \in TargetLists
    /\ seed \in Seeds
    /\ InitRun

\* main.optimize up to its stage loop: mdl.Prepare generates the initial
\* leg, evaluates it and starts the track; then iniPerf is kept and the
\* "none" target skips the optimization.
Prepare(leg, res) ==
    /\ pc = "main"
    /\ rnd' = Randomizer(seed)
    /\ Nodes' = leg
    /\ leg0' = leg
    /\ evals' = evals + 1
    /\ best' = eval(leg, res)
    /\ IF ~res.ok
       THEN /\ ant' = NilAnt
            /\ err' = Failure
            /\ term' = "PrepareError"
            /\ pc' = "done"
            /\ UNCHANGED <<Track, iniPerf>>
       ELSE /\ ant' = best'
            /\ err' = Nil
            /\ Track' = Changes(leg) \o << [Pos |-> TRK_MARK, Theta |-> 0] >>
            /\ iniPerf' = res
            /\ IF targets # << "none" >>
               THEN pc' = "optimize" /\ term' = "None"
               ELSE pc' = "done" /\ term' = "Skipped"
    /\ UNCHANGED <<cfg, targets, iter, cmpPos, pos, tries, maxTries, steps,
                   sims, lastVal, total, bestIn, acc, gainTop, simCap, rejCap, seed,
                   rejSince, chkSims, blockBase, blockGain>>

\* mdl.Optimize is entered and optBend initialises its locals.
OptimizeCall ==
    /\ pc = "optimize"
    /\ pc' = "bend"
    /\ pos' = -1
    /\ tries' = 0
    /\ maxTries' = 0
    /\ steps' = 0
    /\ sims' = 0
    /\ lastVal' = NaN
    /\ bestIn' = best
    /\ term' = "Running"
    /\ rejSince' = 0
    /\ chkSims' = 0
    /\ blockBase' = IF StageFatal THEN 0 ELSE Value(best.perf)
    /\ blockGain' = NaN
    /\ UNCHANGED <<cfg, targets, iter, cmpPos, Nodes, best, Track, ant, err,
                   total, iniPerf, acc, evals, leg0, gainTop, simCap, rejCap, seed,
                   rnd>>

\* a test for a later stage that is off by one
HasNextIncl == cmpPos < Len(targets)

\* Comparator.Next: is there a later stage
HasNext == cmpPos < Len(targets) - 1

\* optBend leaves its loop (ant = mdl.best), mdl.Optimize adds up its
\* statistics, and the stage loop of main.optimize accumulates them and
\* moves the comparator on.  Written over the primed optBend variables.
ReturnOk(how) ==
    /\ term' = how
    /\ ant' = best'
    /\ err' = Nil
    /\ total' = [NumMthds |-> total.NumMthds + 1,
                 NumSteps |-> total.NumSteps + steps',
                 NumSims  |-> total.NumSims + sims']
    /\ IF HasNext
       THEN cmpPos' = cmpPos + 1 /\ pc' = "optimize"
       ELSE cmpPos' = cmpPos /\ pc' = "done"

\* optBend returns the evaluator's error: mdl.Optimize returns at once and
\* main.optimize logs the error and returns its (unchanged) totals.
ReturnErr(cand) ==
    /\ term' = "EvalError"
    /\ ant' = cand
    /\ err' = Failure
    /\ pc' = "done"
    /\ UNCHANGED <<total, cmpPos>>

\* unchanged by every iteration of optBend
IterFrame == UNCHANGED <<cfg, targets, iter, iniPerf, bestIn, leg0, gainTop,
                        simCap, rejCap, seed>>

\* a minimum-change test that lets every drawn change pass
TooSmallNever(dw) == FALSE

\* optBend: the drawn change is too small (math.Abs(dw) < mdl.bendMin, with
\* bendMin = bendMax * MinBend)
TooSmall(dw) == 100 * Abs(dw) < bendMax * MinBendPct

\* optBend: the change would bend the joint beyond bendMax
OverBend(theta, dw) == Abs(theta + dw) > bendMax

\* optBend: NEC2 safe-guard, the feed resistance left [MinZr, MaxZr]
OutOfBand(r) == r < cfg.MinZr \/ r > cfg.MaxZr

\* a round limit that is one evaluation late
RoundsExceededLate(t) == t > maxTries + Num * cfg.MaxRounds + 1

\* optBend: "quit after max number of rounds", t being the counter after
\* its increment
RoundsExceeded(t) == t > maxTries + Num * cfg.MaxRounds

\* optBend: a progress check is due after st accepted steps
ProgressDue(st) == st % cfg.ProgressCheck = 0

\* an "optimum reached" test that also fires on a change of exactly MinChange
OptimumReachedIncl(val) == ~lastVal.nan /\ val - lastVal.v <= cfg.MinChange

\* optBend: "optimum reached", the change since the last check is too small
OptimumReached(val) == ~lastVal.nan /\ val - lastVal.v < cfg.MinChange

\* an iteration that ends with "continue" before evaluating
Discard ==
    /\ pos' = -1
    /\ UNCHANGED <<Nodes, best, Track, pc, tries, maxTries, steps, sims,
                   lastVal, ant, err, total, cmpPos, term, acc, evals,
                   rejSince, chkSims, blockBase, blockGain>>

\* One iteration of the loop of optBend; res is the evaluator's answer if
\* the candidate gets evaluated.
Iterate(res) ==
    /\ pc = "bend"
    /\ acc.sims < simCap
    /\ IterFrame
    /\ LET r1   == IF pos = -1 THEN NextRnd(rnd) ELSE rnd
           pk   == IF pos = -1 THEN Intn(r1, Num) ELSE pos
           r2   == NextRnd(r1)
           dw   == DeltaOf(r2)
           n1   == AddAngles(Nodes, pk, dw)
           cand == eval(n1, res)
           cmp  == Compare(res, best.perf)
       IN
       /\ rnd' = r2
       /\ IF TooSmall(dw) THEN Discard
          ELSE IF OverBend(Nodes[pk + 1], dw) THEN Discard
          ELSE IF ~checkGeometry(n1) THEN Discard
          ELSE
            /\ evals' = evals + 1
            /\ IF ~res.ok
               THEN \* the evaluator failed: return ant (the candidate), err
                    /\ Nodes' = n1
                    /\ pos' = pk
                    /\ ReturnErr(cand)
                    /\ UNCHANGED <<best, Track, tries, maxTries, steps, sims,
                                   lastVal, acc, rejSince, chkSims, blockBase,
                                   blockGain>>
               ELSE
                 /\ sims' = sims + 1
                 /\ IF OutOfBand(res.Zr)
                    THEN \* break: the change stays applied
                         /\ Nodes' = n1
                         /\ pos' = pk
                         /\ acc' = [acc EXCEPT !.sims = @ + 1]
                         /\ rejSince' = rejSince + 1
                         /\ UNCHANGED <<best, Track, tries, maxTries, steps,
                                        lastVal, chkSims, blockBase, blockGain>>
                         /\ ReturnOk("Diverged")
                    ELSE IF RoundsExceeded(tries + 1)
                    THEN \* break: the change stays applied
                         /\ Nodes' = n1
                         /\ pos' = pk
                         /\ tries' = tries + 1
                         /\ acc' = [acc EXCEPT !.sims = @ + 1]
                         /\ rejSince' = rejSince + 1
                         /\ UNCHANGED <<best, Track, maxTries, steps, lastVal,
                                        chkSims, blockBase, blockGain>>
                         /\ ReturnOk("Exhausted")
                    ELSE IF cmp[1] = 1
                    THEN \* improved performance: accepted step
                         LET val == cmp[2]
                             st  == steps + 1
                         IN
                         /\ best' = cand
                         /\ Track' = Append(Track, [Pos |-> pk, Theta |-> dw])
                         /\ Nodes' = n1
                         /\ pos' = pk
                         /\ steps' = st
                         /\ acc' = [steps |-> acc.steps + 1, sims |-> acc.sims + 1]
                         /\ rejSince' = 0
                         /\ IF st % cfg.ProgressCheck = 0
                            THEN blockGain' = Float(val - blockBase) /\ blockBase' = val
                            ELSE UNCHANGED <<blockGain, blockBase>>
                         /\ IF iter = st
                            THEN /\ tries' = tries + 1
                                 /\ UNCHANGED <<maxTries, lastVal, chkSims>>
                                 /\ ReturnOk("IterCap")
                            ELSE IF ProgressDue(st)
                            THEN IF OptimumReached(val)
                                 THEN /\ tries' = tries + 1
                                      /\ UNCHANGED <<maxTries, lastVal, chkSims>>
                                      /\ ReturnOk("Converged")
                                 ELSE /\ lastVal' = Float(val)
                                      /\ maxTries' = Max2(maxTries, tries + 1)
                                      /\ tries' = 0
                                      /\ chkSims' = sims + 1
                                      /\ UNCHANGED <<pc, ant, err, total, cmpPos, term>>
                            ELSE /\ tries' = tries + 1
                                 /\ UNCHANGED <<maxTries, lastVal, chkSims, pc, ant,
                                                err, total, cmpPos, term>>
                    ELSE \* not better: revert the change, draw a new joint
                         /\ pos' = -1
                         /\ tries' = tries + 1
                         /\ acc' = [acc EXCEPT !.sims = @ + 1]
                         /\ rejSince' = rejSince + 1
                         /\ UNCHANGED <<Nodes, best, Track, maxTries, steps, lastVal,
                                        pc, ant, err, total, cmpPos, term, chkSims,
                                        blockBase, blockGain>>

\* optBend: the joint, the randomizer state and the leg of the candidate
\* that the next iteration draws
PickedPos == IF pos = -1 THEN Intn(NextRnd(rnd), Num) ELSE pos
DrawnRnd == NextRnd(IF pos = -1 THEN NextRnd(rnd) ELSE rnd)
Candidate == AddAngles(Nodes, PickedPos, DeltaOf(DrawnRnd))

\* optBend: the next iteration gets as far as cmp.Compare when the
\* evaluator answers res
ReachesCompare(res) ==
    /\ ~TooSmall(DeltaOf(DrawnRnd))
    /\ ~OverBend(Nodes[PickedPos + 1], DeltaOf(DrawnRnd))
    /\ checkGeometry(Candidate)
    /\ res.ok
    /\ ~OutOfBand(res.Zr)
    /\ ~RoundsExceeded(tries + 1)

\* An iteration of optBend that reaches cmp.Compare on a stage Comparator.value
\* does not know: log.Fatalf ends the process inside the comparison.
Fatalf(res) ==
    /\ pc = "bend"
    /\ acc.sims < simCap
    /\ StageFatal
    /\ ReachesCompare(res)
    /\ IterFrame
    /\ rnd' = DrawnRnd
    /\ Nodes' = Candidate
    /\ pos' = PickedPos
    /\ evals' = evals + 1
    /\ sims' = sims + 1
    /\ tries' = tries + 1
    /\ acc' = [acc EXCEPT !.sims = @ + 1]
    /\ rejSince' = rejSince + 1
    /\ pc' = "fatal"
    /\ term' = "Fatal"
    /\ UNCHANGED <<best, Track, maxTries, steps, lastVal, ant, err, total,
                   cmpPos, chkSims, blockBase, blockGain>>

\* the steps of the optimizer; the geometry part of the model stays idle
Perturb ==
    /\ \E res \in EvalResults(best.perf.Gmax) : Iterate(res)
    /\ UNCHANGED <<geoVars, extVars>>

Generate ==
    /\ pc = "main"
    /\ \E leg \in GenLegs : \E res \in EvalResults(0) : Prepare(leg, res)
    /\ UNCHANGED <<geoVars, extVars>>

Optimize ==
    /\ OptimizeCall
    /\ UNCHANGED <<geoVars, extVars>>

-----------------------------------------------------------------------------
(* Part II -- geometry: BuildAntenna and the repair pass FixGeometry *)

(* Units.  x and y are counted in halves of the segment length d, so that a
   leg with turns of 90 degrees has integer coordinates.  An antenna carries
   a denominator q: its z coordinates are counted in 1/q of that unit, which
   keeps the ramps of FixGeometry (multiples of minD / m) exact. *)

\* number of joints of the legs handed to BuildAntenna
GeoLen == 8

\* nodes[0].Len(): the segment length d
SegLen == 2
\* antenna.go: number of segments involved in avoiding wire intersections
Bulge == 100
\* CheckDistances: only segments more than this many indices apart count
IdxGap == 10

\* the turns of the legs: -90, 0 and 90 degrees
GeoTurns == { -3, 0, 3 }

\* legs of the optimizer: GeoLen joints, valid by checkGeometry
GeoLegs ==
    { leg \in [1..GeoLen -> GeoTurns] : checkGeometry(leg) }

RECURSIVE Gcd(_, _)
Gcd(a, b) == IF b = 0 THEN a ELSE Gcd(b, a % b)
Lcm(a, b) == (a * b) \div Gcd(a, b)

\* a/b < c/d for a, c >= 0 and b, d > 0, decided without forming products
RECURSIVE RatLess(_, _, _, _)
RatLess(a, b, c, d) ==
    LET qa == a \div b
        qc == c \div d
        ra == a % b
        rc == c % d
    IN  IF qa # qc THEN qa < qc
        ELSE IF rc = 0 THEN FALSE
        ELSE IF ra = 0 THEN TRUE
        ELSE RatLess(d, rc, b, ra)

\* Vec3 operations
VSub(v, u) == << v[1] - u[1], v[2] - u[2], v[3] - u[3] >>
VAdd(v, u) == << v[1] + u[1], v[2] + u[2], v[3] + u[3] >>

\* Vec3.Equals: the difference has null length (the grid is far coarser
\* than eps)
Equals(v, u) == v = u

\* Vec3.Move2D by the segment length in direction a (units of 30 degrees,
\* here a multiple of 90 degrees): d*cos(a) and d*sin(a) are integers
Move2D(v, a) ==
    << v[1] + (SegLen * Cos2(a)[1]) \div 2,
       v[2] + (SegLen * Cos2(a - 3)[1]) \div 2,
       v[3] >>

\* Vec3.MirrorX
MirrorX(v) == << -v[1], v[2], v[3] >>

\* NewSegment (the wire diameter plays no part in the geometry)
NewSegment(s, e) == [start |-> s, end |-> e]

\* Line.Dir
Dir(l) == VSub(l.end, l.start)

\* the loop of BuildAntenna: one segment and its mirror image per node
RECURSIVE AddNodes(_, _, _, _, _)
AddNodes(segs, nodes, i, p, dir) ==
    IF i > Len(nodes) THEN segs
    ELSE LET d2  == dir + nodes[i]
             end == Move2D(p, d2)
         IN  AddNodes(segs \o << NewSegment(p, end),
                                NewSegment(MirrorX(end), MirrorX(p)) >>,
                      nodes, i + 1, end, d2)

\* BuildAntenna before its call of FixGeometry: the feed segment, then the
\* segments of the nodes
BuildSegs(nodes) ==
    LET p == << SegLen \div 2, 0, 0 >>
    IN  [q |-> 1,
         segs |-> AddNodes(<< NewSegment(MirrorX(p), p) >>, nodes, 1, p, 0)]

\* math.MaxFloat64, the value Distance starts with
MaxFloat64 == [max |-> TRUE, t |-> 0, r |-> 1]

\* the midpoints of li and lj are farther apart than the mean of the two
\* lengths: 2|mi - mj| > |ei| + |ej|, all lengths scaled by q
MidFar(li, lj, q) ==
    LET ei == Dir(li)
        ej == Dir(lj)
        D  == VSub(VAdd(li.start, li.end), VAdd(lj.start, lj.end))
        P  == q * q * (D[1] * D[1] + D[2] * D[2]) + D[3] * D[3]
        Ei == q * q * (ei[1] * ei[1] + ei[2] * ei[2]) + ei[3] * ei[3]
        Ej == q * q * (ej[1] * ej[1] + ej[2] * ej[2]) + ej[3] * ej[3]
        L  == P - Ei - Ej
    IN  L > 0 /\ (L > Ei + Ej \/ RatLess(2 * Ej, L, L, 2 * Ei))

\* Line.Distance: MaxFloat64, or the signed distance t / sqrt(r) of the two
\* (infinite) lines, n = ei x ej and d = n.(-g) / |n|
Distance(li, lj, q) ==
    IF Equals(li.start, lj.end) \/ Equals(li.end, lj.start) THEN MaxFloat64
    ELSE IF MidFar(li, lj, q) THEN MaxFloat64
    ELSE LET ei == Dir(li)
             ej == Dir(lj)
             a  == ei[2] * ej[3] - ei[3] * ej[2]
             b  == ei[3] * ej[1] - ei[1] * ej[3]
             c  == ei[1] * ej[2] - ei[2] * ej[1]
             g  == VSub(lj.start, li.start)
         IN  IF a = 0 /\ b = 0 /\ c = 0 THEN MaxFloat64
             ELSE [max |-> FALSE,
                   t |-> -(a * g[1] + b * g[2] + c * g[3]),
                   r |-> a * a + b * b + q * q * c * c]

\* d < minD for a result of Distance
DistLess(d, minD) ==
    /\ ~d.max
    /\ \/ d.t <= 0
       \/ RatLess(d.t, d.r, minD * minD, d.t)

\* the inner loop of CheckDistances for one i: the indices j > i more than
\* IdxGap away from i whose segment is closer to segment i than minD
\* (i and j are 0-based)
CheckRow(a, minD, i) ==
    LET n == Len(a.segs)
        Close(j) == /\ (j - i) > IdxGap
                    /\ DistLess(Distance(a.segs[i + 1], a.segs[j + 1], a.q), minD)
    IN  SelectSeq([k \in 1..(n - 1 - i) |-> i + k], Close)

\* the outer loop of CheckDistances
RECURSIVE CheckRows(_, _, _)
CheckRows(a, minD, i) ==
    IF i >= Len(a.segs) - 1 THEN << >>
    ELSE CheckRow(a, minD, i) \o CheckRows(a, minD, i + 1)

\* CheckDistances: the higher index of every pair of segments whose distance
\* is below minD, in the order of the two loops
CheckDistances(a, minD) == CheckRows(a, minD, 0)

\* sort.Slice of Regions: the indices in ascending order
RECURSIVE Insert(_, _)
Insert(sorted, x) ==
    IF sorted = << >> THEN << x >>
    ELSE IF x < Head(sorted) THEN << x >> \o sorted
    ELSE << Head(sorted) >> \o Insert(Tail(sorted), x)

RECURSIVE SortInts(_)
SortInts(sq) ==
    IF sq = << >> THEN << >> ELSE Insert(SortInts(Tail(sq)), Head(sq))

\* the loop of Regions over pos[1:], and the statement after it: the last
\* run is appended only if last != start
RECURSIVE RegionLoop(_, _, _, _, _)
RegionLoop(ps, k, start, last, r) ==
    IF k > Len(ps)
    THEN IF last # start THEN Append(r, << start, last >>) ELSE r
    ELSE LET idx == ps[k]
         IN  IF idx = last THEN RegionLoop(ps, k + 1, start, last, r)
             ELSE IF idx = last + 1 THEN RegionLoop(ps, k + 1, start, idx, r)
             ELSE RegionLoop(ps, k + 1, idx, idx,
                             Append(r, << start, last >>))

\* Regions: condense a list of indices into regions
Regions(ps) ==
    IF Len(ps) = 0 THEN << >>
    ELSE LET srt == SortInts(ps)
         IN  RegionLoop(srt, 2, srt[1], srt[1], << >>)

\* a point with y raised by dz
AddZIntoY(v, dz) == << v[1], v[2] + dz, v[3] >>

\* a point with z raised by dz
AddZ(v, dz) == << v[1], v[2], v[3] + dz >>

\* the body of the loop of FixGeometry for one region r: the segments from
\* start to end are lifted, fully inside the region and along a ramp of
\* slope step = minD / m outside.  The denominator becomes a multiple of m.
FixRegion(a, r, minD) ==
    LET n     == Len(a.segs)
        start == Max2(1, r[1] - Bulge)
        end   == Min2(n - 1, r[2] + Bulge)
        m     == Max2(r[1] - start, end - r[2])
        q2    == Lcm(a.q, m)
        f     == q2 \div a.q
        mD    == minD * q2
        step  == mD \div m
    IN  [q |-> q2,
         segs |->
           [k \in 1..n |->
              LET i == k - 1
                  s == a.segs[k]
                  p == << s.start[1], s.start[2], f * s.start[3] >>
                  e == << s.end[1], s.end[2], f * s.end[3] >>
              IN  IF i < start \/ i > end THEN [start |-> p, end |-> e]
                  ELSE IF i < r[1]
                  THEN LET dz == mD - (r[1] - i) * step
                       IN  [start |-> AddZ(p, dz), end |-> AddZ(e, dz + step)]
                  ELSE IF i > r[2]
                  THEN LET dz == mD - (i - r[2]) * step
                       IN  [start |-> AddZ(p, dz + step), end |-> AddZ(e, dz)]
                  ELSE [start |-> AddZ(p, mD), end |-> AddZ(e, mD)]]]

RECURSIVE FixRegions(_, _, _, _)
FixRegions(a, regions, k, minD) ==
    IF k > Len(regions) THEN a
    ELSE FixRegions(FixRegion(a, regions[k], minD), regions, k + 1, minD)

\* Antenna.FixGeometry
FixGeometry(a, minD) ==
    FixRegions(a, Regions(CheckDistances(a, minD)), 1, minD)

\* the value of a z coordinate does not depend on the denominator: two
\* geometries are the same if they agree after scaling to a common one
SameGeometry(a, b) ==
    /\ Len(a.segs) = Len(b.segs)
    /\ \A k \in 1..Len(a.segs) :
         /\ a.segs[k].start[1] = b.segs[k].start[1]
         /\ a.segs[k].start[2] = b.segs[k].start[2]
         /\ a.segs[k].start[3] * b.q = b.segs[k].start[3] * a.q
         /\ a.segs[k].end[1] = b.segs[k].end[1]
         /\ a.segs[k].end[2] = b.segs[k].end[2]
         /\ a.segs[k].end[3] * b.q = b.segs[k].end[3] * a.q

\* no antenna built yet
NoGeo == [q |-> 1, segs |-> << >>]

InitGeo ==
    /\ gpc = "idle"
    /\ gnodes = << >>
    /\ gant = NoGeo
    /\ gant0 = NoGeo
    /\ gant2 = NoGeo

\* lib.BuildAntenna on a leg: the segments are laid out and FixGeometry(2*d)
\* repairs them
BuildAntenna(nodes) ==
    /\ gpc = "idle"
    /\ gnodes' = nodes
    /\ gant0' = BuildSegs(nodes)
    /\ gant' = FixGeometry(gant0', 2 * SegLen)
    /\ gant2' = gant2
    /\ gpc' = "built"

\* FixGeometry is run once more, with the same minD, on the built antenna
RepairAgain ==
    /\ gpc = "built"
    /\ gant2' = FixGeometry(gant, 2 * SegLen)
    /\ gpc' = "again"
    /\ UNCHANGED <<gnodes, gant, gant0>>
    /\ UNCHANGED <<optVars, extVars>>

\* the generator hands a leg to BuildAntenna
Build ==
    /\ gpc = "idle"
    /\ \E leg \in GeoLegs : BuildAntenna(leg)
    /\ UNCHANGED <<optVars, extVars>>

NextGeo ==
    \/ Build
    \/ RepairAgain

-----------------------------------------------------------------------------
(* Part III -- library functions called on their own *)

\* no library function has been called
IdleFn ==
    /\ fpc = "idle"
    /\ fin = Nil
    /\ fout = Nil

\* no comparator specification is being parsed: the scenarios of Part I
\* start with a comparator whose stages are targets in raw mode
IdleCmp ==
    /\ optS = << >>
    /\ args = << >>

\* a Task without antenna (the zero value of SDLCanvas.curr)
NoTask == [id |-> 0, pos |-> -2, evals |-> 0]

\* no canvas: the run has no visualization
IdleVis ==
    /\ outbox = << >>
    /\ made = 0
    /\ cpc = "off"
    /\ ctask = NoTask
    /\ currTask = NoTask
    /\ count = -1
    /\ waiting = FALSE
    /\ stepper = FALSE
    /\ kpc = "off"
    /\ kval = FALSE
    /\ keys = 0
    /\ shown = << >>

\* the randomized generators of the registry
GenNames == { "walk", "stroll", "trespass" }

\* a generator instance as the registry creates it (new(GenWalk), ...)
NewGen == [rng |-> 0, params |-> << >>]

\* no leg
NoLeg == [ok |-> TRUE, den |-> 1, th |-> << >>]

\* the channel of the canvas is open and main has read no result
IdleMain ==
    /\ chan = "open"
    /\ report = Nil

\* generator.go init(): the registry holds one fresh instance per name; no
\* generator was asked for
IdleGen ==
    /\ gens = [n \in GenNames |-> NewGen]
    /\ genSel = Nil
    /\ genPc = "idle"
    /\ genInits = 0
    /\ genCall = Nil
    /\ genLeg = NoLeg

\* the optimizer before anything is prepared, in a fixed configuration
IdleOpt ==
    /\ cfg = CfgShort
    /\ gainTop = MaxGain
    /\ simCap = MaxSims
    /\ rejCap = MaxSims
    /\ iter = 0
    /\ targets = << "none" >>
    /\ seed = 0
    /\ InitRun

\* largest segment index in the lists handed to Regions
MaxIdx == 5
\* longest list of indices handed to Regions
MaxPos == 4

\* the example of the comment above Regions
RegionsExample == << 3, 5, 6, 7, 8, 12, 15, 16, 19 >>

\* index lists as CheckDistances builds them: in any order, an index may
\* appear several times
RegionsInputs ==
    UNION { [1..n -> 1..MaxIdx] : n \in 0..MaxPos } \cup { RegionsExample }

\* the indices a list of inclusive ranges covers
Covered(r) ==
    UNION { r[k][1]..r[k][2] : k \in 1..Len(r) }

\* the ranges are ascending and no two of them touch or overlap
Separated(r) ==
    \A k \in 1..Len(r) :
        /\ r[k][1] <= r[k][2]
        /\ k < Len(r) => r[k][2] + 1 < r[k + 1][1]

\* Regions is called on a list of indices
CallRegions ==
    /\ fpc = "idle"
    /\ fin.fn = "Regions"
    /\ fout' = Regions(fin.pos)
    /\ fpc' = "Regions"
    /\ UNCHANGED <<fin, optVars, geoVars, cmpVars, visVars, genVars, mainVars>>

(* The comparator on its own.  A float64 is a record: kind "num" with its
   value v counted in halves of the comparator's epsilon (0.5e-9), or one of
   the kinds "nan", "-inf" and "+inf" that the logarithms of Loss,
   Attenuation and Resonance produce. *)

Fnum(x) == [kind |-> "num", v |-> x]
Fnan == [kind |-> "nan", v |-> 0]
Finf(sgn) == [kind |-> IF sgn < 0 THEN "-inf" ELSE "+inf", v |-> 0]

\* float64 addition
FloatAdd(a, b) ==
    CASE a.kind = "nan" \/ b.kind = "nan" -> Fnan
      [] a.kind = "num" /\ b.kind = "num" -> Fnum(a.v + b.v)
      [] a.kind = "num" -> b
      [] b.kind = "num" -> a
      [] a.kind = b.kind -> a
      [] OTHER -> Fnan

\* float64 negation and subtraction
FloatNeg(a) ==
    CASE a.kind = "num" -> Fnum(-a.v)
      [] a.kind = "-inf" -> Finf(1)
      [] a.kind = "+inf" -> Finf(-1)
      [] OTHER -> Fnan
FloatSub(a, b) == FloatAdd(a, FloatNeg(b))

\* a > x and a < x for a float64 a and a finite x (false for NaN)
FloatGt(a, x) == a.kind = "+inf" \/ (a.kind = "num" /\ a.v > x)
FloatLt(a, x) == a.kind = "-inf" \/ (a.kind = "num" /\ a.v < x)

\* Comparator.Compare: eps := 1e-9
Eps == 2

\* the gain of a stage in the mode arg: raw, or with p.Loss(feedZ),
\* p.Attenuation(feedZ), p.Resonance() added
ModeValue(g, arg, p) ==
    CASE arg \in { "", "raw" } -> Fnum(g)
      [] arg = "unmatched" -> FloatAdd(p.Loss, Fnum(g))
      [] arg = "matched" -> FloatAdd(p.Attenuation, Fnum(g))
      [] arg = "resonant" -> FloatAdd(p.Resonance, Fnum(g))

\* Comparator.value with its mode argument: the standard evaluation of a
\* stage that does not end in log.Fatalf
StdValue(target, arg, p) ==
    CASE target = "Gmax" -> ModeValue(p.Gmax, arg, p)
      [] target = "Gmean" -> ModeValue(p.Gmean, arg, p)
      [] target = "SD" -> Fnum(-p.SD)
      [] target = "Z" -> p.Loss
      [] target = "none" -> Fnum(0)

\* a comparison whose "worse" does not use the epsilon
CompareSignNoEps(chg) ==
    IF FloatGt(chg, Eps) THEN 1 ELSE IF FloatLt(chg, 0) THEN -1 ELSE 0

\* Comparator.Compare: the sign of a change
CompareSign(chg) ==
    IF FloatGt(chg, Eps) THEN 1 ELSE IF FloatLt(chg, -Eps) THEN -1 ELSE 0

\* Comparator.Compare on a stage: the sign only
StdCompare(target, arg, curr, old) ==
    CompareSign(FloatSub(StdValue(target, arg, curr),
                         StdValue(target, arg, old)))

\* the stages of a comparator that Comparator.value evaluates
Stages ==
    { << t, a >> : t \in { "Gmax", "Gmean" }, a \in GainModes }
    \cup { << "SD", "" >>, << "Z", "" >>, << "none", "" >> }

\* Performances the comparator is called on: gains in halves of epsilon,
\* and the mismatch terms that p.Z gives
Perfs ==
    [ Gmax : { 0, 3 }, Gmean : { 0, 2, 3 }, SD : { 0, 3 },
      Loss : { Fnum(-3), Fnan },
      Attenuation : { Fnum(0), Finf(-1) },
      Resonance : { Fnum(-3) } ]

\* Compare is called on a stage both ways round and on equal arguments
CallCompare ==
    /\ fpc = "idle"
    /\ fin.fn = "Compare"
    /\ fout' = [ ab |-> StdCompare(fin.stage[1], fin.stage[2], fin.a, fin.b),
                 ba |-> StdCompare(fin.stage[1], fin.stage[2], fin.b, fin.a),
                 aa |-> StdCompare(fin.stage[1], fin.stage[2], fin.a, fin.a) ]
    /\ fpc' = "Compare"
    /\ UNCHANGED <<fin, optVars, geoVars, cmpVars, visVars, genVars, mainVars>>

\* the argument NewComparator keeps for a target name: the one of the last
\* stage with that name
LastArg(sp, t) ==
    sp[CHOOSE k \in 1..Len(sp) :
          /\ sp[k][1] = t
          /\ \A j \in (k + 1)..Len(sp) : sp[j][1] # t][2]

\* chained comparator specifications of two gain stages, e.g.
\* Gmax=matched,Gmax=resonant
ChainSpecs ==
    LET gain == { << t, a >> : t \in { "Gmax", "Gmean" },
                               a \in { "raw", "matched", "resonant" } }
    IN  { << s1, s2 >> : s1 \in gain, s2 \in gain }

\* Comparator.Value with the cursor on stage k (1-based) of the comparator
\* that NewComparator makes of the specification sp
ValueAt(sp, k, p) ==
    LET tgts   == [j \in 1..Len(sp) |-> sp[j][1]]
        kept   == [t \in { sp[j][1] : j \in 1..Len(sp) } |-> LastArg(sp, t)]
        target == tgts[k]
    IN  StdValue(target, kept[target], p)

\* NewComparator on a chained specification, the cursor moved to a stage
\* and Value called on a performance
CallValue ==
    /\ fpc = "idle"
    /\ fin.fn = "Value"
    /\ fout' = ValueAt(fin.spec, fin.k, fin.p)
    /\ fpc' = "Value"
    /\ UNCHANGED <<fin, optVars, geoVars, cmpVars, visVars, genVars, mainVars>>

(* BendMax on its own.  Lengths are whole numbers of an arbitrary unit; the
   result is the fraction num/den of angle units (Pi = CircAng / 2). *)

\* largest minimum radius and largest segment length BendMax is called with
MaxRadius == 3
MaxSegL == 20

\* Pi lies strictly between 333/106 and 355/113
PiLow == << 333, 106 >>
PiHigh == << 355, 113 >>

\* math.Ceil(a / b) for whole numbers a >= 0, b > 0
Ceil(a, b) == (a + b - 1) \div b

\* math.Ceil(U / segL) with U := CircAng * r = 2*Pi*r.  2*Pi*r/segL is
\* never a whole number, so the ceiling is the one of any rational bound of
\* Pi that is tight enough; CircExact tells that both bounds agree.
CeilCirc(r, segL) == Ceil(2 * PiHigh[1] * r, PiHigh[2] * segL)
CircExact(r, segL) ==
    CeilCirc(r, segL) = Ceil(2 * PiLow[1] * r, PiLow[2] * segL)

\* the segment lengths for which the model's ceiling is the exact one
ExactSegL(r) == { segL \in 1..MaxSegL : CircExact(r, segL) }

\* a BendMax that divides the segment length by the circumference
BendMaxInv(r, segL) ==
    [num |-> CircAng \div 2, den |-> Ceil(PiHigh[2] * segL, 2 * PiHigh[1] * r)]

\* lib.BendMax: math.Pi / n
BendMax(r, segL) ==
    [num |-> CircAng \div 2, den |-> CeilCirc(r, segL)]

\* fractions with positive denominators: a >= b
FracGeq(a, b) == a.num * b.den >= b.num * a.den

\* BendMax is called for one radius and two segment lengths
CallBendMax ==
    /\ fpc = "idle"
    /\ fin.fn = "BendMax"
    /\ fout' = [ b1 |-> BendMax(fin.r, fin.segL1),
                 b2 |-> BendMax(fin.r, fin.segL2) ]
    /\ fpc' = "BendMax"
    /\ UNCHANGED <<fin, optVars, geoVars, cmpVars, visVars, genVars, mainVars>>

\* the arguments a library function is called with
FnInputs ==
    { [fn |-> "Regions", pos |-> ps] : ps \in RegionsInputs }
    \cup { [fn |-> "Compare", stage |-> st, a |-> a, b |-> b] :
              st \in Stages, a \in Perfs, b \in Perfs }
    \cup UNION { { [fn |-> "BendMax", r |-> r, segL1 |-> l1, segL2 |-> l2] :
                      l1 \in ExactSegL(r), l2 \in ExactSegL(r) } :
                    r \in 1..MaxRadius }
    \cup { [fn |-> "Value", spec |-> sp, k |-> k, p |-> p] :
              sp \in ChainSpecs, k \in 1..2, p \in Perfs }

InitFn ==
    /\ fpc = "idle"
    /\ fin \in FnInputs
    /\ fout = Nil
    /\ IdleOpt
    /\ InitGeo
    /\ IdleCmp
    /\ IdleVis
    /\ IdleGen
    /\ IdleMain

NextFn ==
    \/ CallRegions
    \/ CallCompare
    \/ CallBendMax
    \/ CallValue

SpecFn == InitFn /\ [][NextFn]_vars

-----------------------------------------------------------------------------
(* Part IV -- the run from the comparator specification on *)

\* comparator specifications (-opt) with and without a stage that
\* Comparator.value does not know
OptSpecs ==
    { << << "Gmax", "" >> >>,
      << << "Gmax", "raw" >>, << "none", "" >> >>,
      << << BadTarget, "" >> >>,
      << << "Gmax", BadMode >> >>,
      << << "Gmax", "" >>, << BadTarget, "" >> >>,
      << << "none", "" >>, << "Gmax", BadMode >> >> }

\* the specification holds a stage that Comparator.value does not know
BadSpec(sp) == \E k \in 1..Len(sp) : ValueFatal(sp[k][1], sp[k][2])

\* lib.NewComparator: every stage that is no plugin and no script gets the
\* standard evaluator; no target name and no argument is looked at
NewComparator ==
    /\ pc = "start"
    /\ targets' = [k \in 1..Len(optS) |-> optS[k][1]]
    /\ args' = [t \in { optS[k][1] : k \in 1..Len(optS) } |-> LastArg(optS, t)]
    /\ cmpPos' = 0
    /\ err' = Nil
    /\ pc' = "main"
    /\ UNCHANGED <<cfg, iter, Nodes, best, Track, pos, tries, maxTries, steps,
                   sims, lastVal, ant, total, iniPerf, term, bestIn, acc,
                   evals, leg0, gainTop, simCap, rejCap, seed, rnd, rejSince,
                   chkSims, blockBase, blockGain>>
    /\ UNCHANGED <<optS, geoVars, fnVars, visVars, genVars, mainVars>>

\* an iteration of optBend on a stage that is evaluated, or one that ends
\* before the comparison
PerturbStage ==
    /\ pc = "bend"
    /\ \E res \in EvalResults(best.perf.Gmax) :
          /\ ~(StageFatal /\ ReachesCompare(res))
          /\ Iterate(res)
    /\ UNCHANGED <<geoVars, extVars>>

\* an iteration of optBend that ends in log.Fatalf
PerturbFatal ==
    /\ pc = "bend"
    /\ \E res \in EvalResults(best.perf.Gmax) : Fatalf(res)
    /\ UNCHANGED <<geoVars, extVars>>

\* the state when main has parsed its flags: GetModel done, the comparator
\* specification not yet handed to NewComparator
InitCmp ==
    /\ optS \in OptSpecs
    /\ args = << >>
    /\ cfg = CfgShort
    /\ gainTop = MaxGain
    /\ simCap = MaxSims
    /\ rejCap = MaxSims
    /\ iter \in {0, 2}
    /\ targets = << >>
    /\ seed \in Seeds
    /\ rnd = 0
    /\ cmpPos = 0
    /\ Nodes = << >>
    /\ best = NilAnt
    /\ Track = << >>
    /\ pc = "start"
    /\ pos = -1
    /\ tries = 0
    /\ maxTries = 0
    /\ steps = 0
    /\ sims = 0
    /\ lastVal = NaN
    /\ ant = NilAnt
    /\ err = Nil
    /\ total = [NumMthds |-> 0, NumSteps |-> 0, NumSims |-> 0]
    /\ iniPerf = NoPerf
    /\ term = "None"
    /\ bestIn = NilAnt
    /\ acc = [steps |-> 0, sims |-> 0]
    /\ evals = 0
    /\ leg0 = << >>
    /\ rejSince = 0
    /\ chkSims = 0
    /\ blockBase = 0
    /\ blockGain = NaN
    /\ InitGeo
    /\ IdleFn
    /\ IdleVis
    /\ IdleGen
    /\ IdleMain

NextCmp ==
    \/ NewComparator
    \/ Generate
    \/ Optimize
    \/ PerturbStage
    \/ PerturbFatal

SpecCmp == InitCmp /\ [][NextCmp]_vars

-----------------------------------------------------------------------------
(* Part V -- the run with visualization (main -vis, SDLCanvas)

   main starts optimize in a goroutine and calls render.Run, which starts the
   render goroutine and then serves key presses.  The optimizer's callback
   calls render.Show, a send on the unbuffered channel taskCh, and returns
   when the render goroutine has received the task.  What an iteration does
   after its callback touches the optimizer's own state only, so the model
   lets an optimizer step happen at once and keeps the tasks of its callbacks
   in outbox; the optimizer takes no further step before outbox is empty. *)

\* evaluations inside optBend that the visualization scenario follows
MaxSimsVis == 3
\* key presses that the scenario follows
MaxKeys == 2

\* the process runs: main has neither returned nor called log.Fatal, and
\* no goroutine has panicked
Alive == kpc \notin { "exit", "fatal" } /\ chan # "panic"

\* the k-th Task handed to render.Show; evals is the observer's note of the
\* evaluator calls made when the callback was called
Task(k, p) == [id |-> k, pos |-> p, evals |-> evals']

\* main.optimize with render # nil: mdl.Prepare and its callback
\* "initial geometry"
GenerateVis ==
    /\ Alive
    /\ pc = "main"
    /\ outbox = << >>
    /\ \E leg \in GenLegs : \E res \in EvalResults(0) :
          /\ Prepare(leg, res)
          /\ IF res.ok
             THEN /\ outbox' = << Task(made + 1, -1) >>
                  /\ made' = made + 1
             ELSE UNCHANGED <<outbox, made>>
    /\ UNCHANGED <<cpc, ctask, currTask, count, waiting, stepper, kpc, kval, keys,
                   shown>>
    /\ UNCHANGED <<geoVars, fnVars, cmpVars, genVars, mainVars>>

\* mdl.Optimize is entered (the callback of the previous stage returned)
OptimizeVis ==
    /\ Alive
    /\ outbox = << >>
    /\ OptimizeCall
    /\ UNCHANGED <<geoVars, fnVars, cmpVars, visVars, genVars, mainVars>>

\* One iteration of optBend with render # nil: an accepted step calls the
\* callback "Step #n" with the joint, and a stage that returns without
\* error calls the callback "optimized geometry" with pos -1.
PerturbVis ==
    /\ Alive
    /\ pc = "bend"
    /\ outbox = << >>
    /\ \E res \in EvalResults(best.perf.Gmax) : Iterate(res)
    /\ LET stepped  == steps' = steps + 1
           returned == total'.NumMthds = total.NumMthds + 1
           first    == IF stepped THEN << Task(made + 1, pos') >> ELSE << >>
           last     == IF returned
                       THEN << Task(made + Len(first) + 1, -1) >> ELSE << >>
       IN  /\ outbox' = first \o last
           /\ made' = made + Len(first) + Len(last)
    /\ UNCHANGED <<cpc, ctask, currTask, count, waiting, stepper, kpc, kval, keys,
                   shown>>
    /\ UNCHANGED <<geoVars, fnVars, cmpVars, genVars, mainVars>>

\* unchanged by the render goroutine and by the key handler
VisFrame == UNCHANGED <<optVars, geoVars, fnVars, cmpVars, genVars, made, mainVars>>

\* render goroutine: "for task := range c.taskCh" receives the task the
\* optimizer is sending; render.Show returns
Receive ==
    /\ Alive
    /\ cpc = "recv"
    /\ chan = "open"
    /\ outbox # << >>
    /\ ctask' = Head(outbox)
    /\ outbox' = Tail(outbox)
    /\ cpc' = "gate"
    /\ UNCHANGED <<currTask, count, waiting, stepper, kpc, kval, keys, shown>>
    /\ VisFrame

\* a render goroutine that drops the task it received while paused
PassGateOrDrop ==
    /\ Alive
    /\ cpc = "gate"
    /\ cpc' = IF waiting THEN "recv" ELSE "update"
    /\ UNCHANGED <<outbox, ctask, currTask, count, waiting, stepper, kpc, kval,
                   keys, shown>>
    /\ VisFrame

\* render goroutine: "for c.waiting.Load() { time.Sleep(...) }" is left
PassGate ==
    /\ Alive
    /\ cpc = "gate"
    /\ ~waiting
    /\ cpc' = "update"
    /\ UNCHANGED <<outbox, ctask, currTask, count, waiting, stepper, kpc, kval,
                   keys, shown>>
    /\ VisFrame

\* render goroutine: under the lock the task goes on display; a track mark
\* and the single-step mode pause the rendering
Update ==
    /\ Alive
    /\ cpc = "update"
    /\ currTask' = ctask
    /\ shown' = Append(shown, ctask)
    /\ waiting' = IF ctask.pos = TRK_MARK \/ stepper THEN TRUE ELSE waiting
    /\ count' = count + 1
    /\ cpc' = "recv"
    /\ UNCHANGED <<outbox, ctask, stepper, kpc, kval, keys>>
    /\ VisFrame

\* Run: c.waiting.Store(false) after the render goroutine was started
RunStore ==
    /\ Alive
    /\ kpc = "run"
    /\ waiting' = FALSE
    /\ kpc' = "idle"
    /\ UNCHANGED <<outbox, cpc, ctask, currTask, count, stepper, kval, keys, shown>>
    /\ VisFrame

\* key handler, "Enter": c.waiting.Load()
EnterLoad ==
    /\ Alive
    /\ kpc = "idle"
    /\ keys < MaxKeys
    /\ keys' = keys + 1
    /\ kval' = waiting
    /\ kpc' = "enter"
    /\ UNCHANGED <<outbox, cpc, ctask, currTask, count, waiting, stepper, shown>>
    /\ VisFrame

\* key handler, "Enter": c.waiting.Store(!...) and c.stepper.Store(false)
EnterStore ==
    /\ Alive
    /\ kpc \in { "enter", "enter2" }
    /\ IF kpc = "enter"
       THEN waiting' = ~kval /\ kpc' = "enter2" /\ UNCHANGED stepper
       ELSE stepper' = FALSE /\ kpc' = "idle" /\ UNCHANGED waiting
    /\ UNCHANGED <<outbox, cpc, ctask, currTask, count, kval, keys, shown>>
    /\ VisFrame

\* key handler, "Space": if c.waiting.Load()
SpaceLoad ==
    /\ Alive
    /\ kpc = "idle"
    /\ keys < MaxKeys
    /\ keys' = keys + 1
    /\ kval' = waiting
    /\ kpc' = IF waiting THEN "space" ELSE "idle"
    /\ UNCHANGED <<outbox, cpc, ctask, currTask, count, waiting, stepper, shown>>
    /\ VisFrame

\* key handler, "Space": c.stepper.Store(true) and c.waiting.Store(false)
SpaceStore ==
    /\ Alive
    /\ kpc \in { "space", "space2" }
    /\ IF kpc = "space"
       THEN stepper' = TRUE /\ kpc' = "space2" /\ UNCHANGED waiting
       ELSE waiting' = FALSE /\ kpc' = "idle" /\ UNCHANGED stepper
    /\ UNCHANGED <<outbox, cpc, ctask, currTask, count, kval, keys, shown>>
    /\ VisFrame

\* seeds and comparator specifications of the visualization scenario
VisSeeds == { 0 }
VisTargets == { << "Gmax" >>, << "Gmax", "none" >> }

\* main with -vis: the canvas is created (count = -1, channel empty), the
\* optimizer goroutine and the render goroutine are started, Run is about
\* to store waiting = false
InitVis ==
    /\ cfg = CfgShort
    /\ gainTop = MaxGain
    /\ simCap = MaxSimsVis
    /\ rejCap = MaxSimsVis
    /\ iter \in {0, 2}
    /\ targets \in VisTargets
    /\ seed \in VisSeeds
    /\ InitRun
    /\ InitGeo
    /\ IdleFn
    /\ IdleCmp
    /\ IdleGen
    /\ IdleMain
    /\ outbox = << >>
    /\ made = 0
    /\ cpc = "recv"
    /\ ctask = NoTask
    /\ currTask = NoTask
    /\ count = -1
    /\ waiting = FALSE
    /\ stepper = FALSE
    /\ kpc = "run"
    /\ kval = FALSE
    /\ keys = 0
    /\ shown = << >>

NextVis ==
    \/ GenerateVis
    \/ OptimizeVis
    \/ PerturbVis
    \/ Receive
    \/ PassGate
    \/ Update
    \/ RunStore
    \/ EnterLoad
    \/ EnterStore
    \/ SpaceLoad
    \/ SpaceStore

SpecVis == InitVis /\ [][NextVis]_vars

-----------------------------------------------------------------------------
(* Part VI -- the randomized generators (lib/generator.go)

   Angles are whole numbers of 30 degrees as in Part I.  A leg is a record:
   th holds the numerators of the angles of its joints over the denominator
   den (Smooth2D divides); ok = FALSE marks a leg of the stroll generator
   whose correction left the grid of 30 degrees or was not finite, th then
   holds the joints made before that. *)

\* joints of the legs the scenario asks for
MaxNum == 3
\* calls of GetGenerator that the scenario follows
MaxInits == 2

\* Cfg.Sim.MinRadius * lambda and the segment lengths of the scenario, in
\* the length unit of BendMax: BendMax(1, 7) = Pi and BendMax(1, 3) = Pi/3
GenRadius == 1
GenSegLs == { 3, 7 }

\* a parameter key=value: num tells whether strconv.Atoi accepts the value,
\* n is the number it returns
Param(key, num, n) == [key |-> key, num |-> num, n |-> n]

\* -gen parameters after the name: none, smooth=1, smooth=2, smooth=x
GenParams ==
    { << >>, << Param("smooth", TRUE, 1) >>, << Param("smooth", TRUE, 2) >>,
      << Param("smooth", FALSE, 0) >> }

\* Init of GenWalk, GenStroll and GenTrespass: params is stored, and every
\* "smooth" parameter sets rng; ok = FALSE is the error of strconv.Atoi
RECURSIVE GenInit(_, _, _)
GenInit(g, params, k) ==
    IF k > Len(params) THEN [ok |-> TRUE, g |-> g]
    ELSE IF params[k].key = "smooth"
         THEN IF ~params[k].num THEN [ok |-> FALSE, g |-> g]
              ELSE GenInit([g EXCEPT !.rng = params[k].n], params, k + 1)
         ELSE GenInit(g, params, k + 1)

\* rnd.Float64() in quarters, read from the state reached by the draw
Float64Q(r) == (r \div 16) % 4

\* ang := 2 * (rnd.Float64() - 0.5) * bendMax, for an even bendMax
DrawAngle(r, bm) == ((Float64Q(r) - 2) * bm) \div 2

\* bendMax := BendMax(Cfg.Sim.MinRadius*g.lambda, segL) in angle units
GenBendMax(segL) ==
    BendMax(GenRadius, segL).num \div BendMax(GenRadius, segL).den

\* GenTrespass.Nodes: the loop over the joints from joint i on
RECURSIVE TrespassFrom(_, _, _, _)
TrespassFrom(i, num, bm, r) ==
    IF i > num THEN << >>
    ELSE << DrawAngle(NextRnd(r), bm) >>
         \o TrespassFrom(i + 1, num, bm, NextRnd(r))

\* GenWalk.Nodes: the loop over the joints; an angle that takes the
\* direction beyond RectAng is negated
RECURSIVE WalkFrom(_, _, _, _, _)
WalkFrom(i, num, bm, r, dir) ==
    IF i > num THEN << >>
    ELSE LET a0  == DrawAngle(NextRnd(r), bm)
             ang == IF Abs(dir + a0) > CircAng \div 4 THEN -a0 ELSE a0
         IN  << ang >> \o WalkFrom(i + 1, num, bm, NextRnd(r), dir + ang)

\* math.Mod: the result has the sign of the dividend
Mod(a, m) == IF a >= 0 THEN a % m ELSE -((-a) % m)

\* InRange(dir, RectAng, 3*RectAng)
Inward(dir) == dir >= CircAng \div 4 /\ dir <= 3 * (CircAng \div 4)

\* GenStroll.Nodes: the loop over the joints.  x is 2*x/segL as <<a, b>>
\* meaning a + b*sqrt(3).  The correction mDir = 3*segL/(xn - segL) * Pi/6
\* is 6/(a - 2 + b*sqrt(3)) angle units: a whole number only if b = 0 and
\* a - 2 divides 6.
RECURSIVE StrollFrom(_, _, _, _, _, _)
StrollFrom(i, num, bm, r, dir, x) ==
    IF i > num THEN [ok |-> TRUE, th |-> << >>]
    ELSE LET a0   == DrawAngle(NextRnd(r), bm)
             c    == Cos2(dir + a0)
             xn   == << x[1] + c[1], x[2] + c[2] >>
             fix  == NegSurd(xn[1] - 8, xn[2]) /\ Inward(dir)
             onG  == xn[2] = 0 /\ xn[1] # 2 /\ 6 % Abs(xn[1] - 2) = 0
             mDir == 6 \div (xn[1] - 2)
             cDir == dir - CircAng \div 2
             a1   == IF cDir < 0 THEN -(mDir - cDir) ELSE mDir - cDir
             ang  == IF fix THEN a1 ELSE a0
         IN  IF fix /\ ~onG THEN [ok |-> FALSE, th |-> << >>]
             ELSE LET rest == StrollFrom(i + 1, num, bm, NextRnd(r),
                                         Mod(CircAng + dir + ang, CircAng), xn)
                  IN  [ok |-> rest.ok, th |-> << ang >> \o rest.th]

\* sum of f[k] for k in lo..hi
RECURSIVE Sum(_, _, _)
Sum(f, lo, hi) == IF lo > hi THEN 0 ELSE f[lo] + Sum(f, lo + 1, hi)

\* 2^n
RECURSIVE Exp2(_)
Exp2(n) == IF n = 0 THEN 1 ELSE 2 * Exp2(n - 1)

\* Smooth2D: the divisor f of joint i (1-based), times 2^rng
SmoothF(i, num, rng) ==
    LET lo == Max2(-rng, -(i - 1))
        hi == Min2(rng, num - i)
    IN  Sum([j \in lo..hi |-> Exp2(rng - Abs(j))], lo, hi)

\* least common multiple of the divisors of the joints i..num
RECURSIVE SmoothDen(_, _, _)
SmoothDen(i, num, rng) ==
    IF i > num THEN 1 ELSE Lcm(SmoothF(i, num, rng), SmoothDen(i + 1, num, rng))

\* lib.Smooth2D: every joint hands its angle to the joints at most rng away,
\* weighted by 2^-|distance| and divided by the sum of the weights
Smooth2D(leg, rng) ==
    IF rng < 1 THEN leg
    ELSE LET num == Len(leg.th)
             den == SmoothDen(1, num, rng)
             part(i, k) ==
                 IF Abs(k - i) > rng THEN 0
                 ELSE leg.th[i] * Exp2(rng - Abs(k - i))
                        * (den \div SmoothF(i, num, rng))
         IN  [ok |-> leg.ok, den |-> leg.den * den,
              th |-> [k \in 1..num |->
                        Sum([i \in 1..num |-> part(i, k)], 1, num)]]

\* Nodes of the generator name on the instance g
GenNodes(name, g, num, bm, r) ==
    CASE name = "trespass" ->
           [ok |-> TRUE, den |-> 1, th |-> TrespassFrom(1, num, bm, r)]
      [] name = "walk" ->
           Smooth2D([ok |-> TRUE, den |-> 1, th |-> WalkFrom(1, num, bm, r, 0)],
                    g.rng)
      [] name = "stroll" ->
           LET w == StrollFrom(1, num, bm, r, 0, << 0, 0 >>)
           IN  IF w.ok THEN Smooth2D([ok |-> TRUE, den |-> 1, th |-> w.th], g.rng)
               ELSE [ok |-> FALSE, den |-> 1, th |-> w.th]

\* two legs have the same angles
SameLeg(a, b) ==
    /\ a.ok = b.ok
    /\ Len(a.th) = Len(b.th)
    /\ \A k \in 1..Len(a.th) : a.th[k] * b.den = b.th[k] * a.den

\* lib.GetGenerator: the registered instance of the name is initialised
\* with the parameters and returned, or the error of Init is returned
GetGenerator ==
    /\ genPc \in { "idle", "ready" }
    /\ genInits < MaxInits
    /\ \E name \in GenNames : \E params \in GenParams :
          LET res == GenInit([gens[name] EXCEPT !.params = params], params, 1)
          IN  /\ gens' = [gens EXCEPT ![name] = res.g]
              /\ genSel' = name
              /\ genPc' = IF res.ok THEN "ready" ELSE "failed"
    /\ genInits' = genInits + 1
    /\ UNCHANGED <<genCall, genLeg>>
    /\ UNCHANGED <<optVars, geoVars, fnVars, cmpVars, visVars, mainVars>>

\* mdl.Prepare: mdl.gen.Nodes(mdl.Num, mdl.SegL, lib.Randomizer(seed))
CallNodes ==
    /\ genPc = "ready"
    /\ \E num \in 1..MaxNum : \E segL \in GenSegLs : \E sd \in 0..(RndMod - 1) :
          /\ genCall' = [name |-> genSel, params |-> gens[genSel].params,
                         num |-> num, segL |-> segL, rnd |-> Randomizer(sd)]
          /\ genLeg' = GenNodes(genSel, gens[genSel], num, GenBendMax(segL),
                                Randomizer(sd))
    /\ genPc' = "called"
    /\ UNCHANGED <<gens, genSel, genInits>>
    /\ UNCHANGED <<optVars, geoVars, fnVars, cmpVars, visVars, mainVars>>

\* the registry after init(); no generator asked for yet
InitGen ==
    /\ IdleGen
    /\ IdleMain
    /\ IdleOpt
    /\ InitGeo
    /\ IdleFn
    /\ IdleCmp
    /\ IdleVis

NextGen ==
    \/ GetGenerator
    \/ CallNodes

SpecGen == InitGen /\ [][NextGen]_vars

-----------------------------------------------------------------------------
(* Part VII -- the optimizer followed to the end of every stage *)

\* evaluations the scenario allows; no run of the scenario gets that far
MaxSimsLive == 24
\* largest target value of the evaluator in the scenario
MaxGainLive == 2

\* legs of the generator "trespass" for two joints and bendMax = Pi
TrespassLegs == { TrespassFrom(1, 2, bendMax, Randomizer(sd)) : sd \in Seeds }

InitLive ==
    /\ cfg = CfgShort
    /\ gainTop = MaxGainLive
    /\ simCap = MaxSimsLive
    /\ rejCap = MaxSimsLive
    /\ iter = 0
    /\ targets \in { << "Gmax" >>, << "Gmax", "none" >> }
    /\ seed \in Seeds
    /\ InitRun
    /\ InitGeo
    /\ IdleFn
    /\ IdleCmp
    /\ IdleVis
    /\ IdleGen
    /\ IdleMain

\* mdl.Prepare with a leg of one of the generators
GenerateAny ==
    /\ pc = "main"
    /\ \E leg \in GenLegs \cup TrespassLegs :
          \E res \in EvalResults(0) : Prepare(leg, res)
    /\ UNCHANGED <<geoVars, extVars>>

NextLive ==
    \/ GenerateAny
    \/ Optimize
    \/ Perturb

\* the optimizer is a sequential program that keeps running: a step that
\* is possible is taken
SpecLive == InitLive /\ [][NextLive]_vars /\ WF_vars(NextLive)

-----------------------------------------------------------------------------
(* Part VIII -- the end of a run with visualization

   main.go 226-243: with -vis main creates the canvas, defers render.Close,
   starts "total = optimize(render)" in a goroutine and calls render.Run,
   which returns when the window is closed.  Then main tests ant, reads the
   results for its output and returns, which runs the deferred Close and
   ends the process.  Nothing in main waits for the goroutine. *)

\* evaluations inside optBend that the scenario follows
MaxSimsQuit == 2

\* the optimization goroutine has returned from optimize
Finished == pc = "done" /\ outbox = << >>

\* a callback of Prepare or of mdl.Optimize has not returned yet: the
\* assignment of their results to the variables of main is still to come
InPrepare == outbox # << >> /\ outbox[Len(outbox)].id = 1
InReturn == outbox # << >> /\ outbox[Len(outbox)].pos = -1 /\ ~InPrepare

\* the variables ant, iniPerf and total of main as a read finds them: ant
\* and iniPerf are assigned when Prepare and mdl.Optimize have returned,
\* total when optimize has returned
MainAnt == IF InPrepare THEN NilAnt ELSE IF InReturn THEN bestIn ELSE ant
MainIniPerf == IF InPrepare THEN NoPerf ELSE iniPerf
MainTotal ==
    IF Finished THEN total ELSE [NumMthds |-> 0, NumSteps |-> 0, NumSims |-> 0]

\* unchanged by the steps of main after Run
QuitFrame ==
    UNCHANGED <<optVars, geoVars, fnVars, cmpVars, genVars, outbox, made, cpc,
                ctask, currTask, count, waiting, stepper, kval, keys, shown>>

\* the window is closed: MainLoop and render.Run return
CloseWindow ==
    /\ Alive
    /\ kpc = "idle"
    /\ kpc' = "quit"
    /\ UNCHANGED <<chan, report>>
    /\ QuitFrame

\* main: if ant == nil { log.Fatal("Aborted...") }
TestAnt ==
    /\ Alive
    /\ kpc = "quit"
    /\ kpc' = IF MainAnt = NilAnt THEN "fatal" ELSE "output"
    /\ UNCHANGED <<chan, report>>
    /\ QuitFrame

\* main: the results are read for the log line, the comments and the
\* model file
ReadResults ==
    /\ Alive
    /\ kpc = "output"
    /\ report' = [ant |-> MainAnt, total |-> MainTotal,
                  iniPerf |-> MainIniPerf, finished |-> Finished]
    /\ kpc' = "read"
    /\ UNCHANGED chan
    /\ QuitFrame

\* main returns: the deferred render.Close closes taskCh
CloseCanvas ==
    /\ Alive
    /\ kpc = "read"
    /\ chan' = "closed"
    /\ kpc' = "closing"
    /\ UNCHANGED report
    /\ QuitFrame

\* render.Show on the closed channel: the send panics
SendOnClosed ==
    /\ Alive
    /\ chan = "closed"
    /\ outbox # << >>
    /\ chan' = "panic"
    /\ UNCHANGED <<report, kpc>>
    /\ QuitFrame

\* main has returned: the process ends
Exit ==
    /\ Alive
    /\ kpc = "closing"
    /\ kpc' = "exit"
    /\ UNCHANGED <<chan, report>>
    /\ QuitFrame

\* main with -vis, one Gmax stage
InitQuit ==
    /\ cfg = CfgShort
    /\ gainTop = MaxGain
    /\ simCap = MaxSimsQuit
    /\ rejCap = MaxSimsQuit
    /\ iter = 0
    /\ targets = << "Gmax" >>
    /\ seed \in VisSeeds
    /\ InitRun
    /\ InitGeo
    /\ IdleFn
    /\ IdleCmp
    /\ IdleGen
    /\ IdleMain
    /\ outbox = << >>
    /\ made = 0
    /\ cpc = "recv"
    /\ ctask = NoTask
    /\ currTask = NoTask
    /\ count = -1
    /\ waiting = FALSE
    /\ stepper = FALSE
    /\ kpc = "run"
    /\ kval = FALSE
    /\ keys = 0
    /\ shown = << >>

NextQuit ==
    \/ GenerateVis
    \/ OptimizeVis
    \/ PerturbVis
    \/ Receive
    \/ PassGate
    \/ Update
    \/ RunStore
    \/ EnterLoad
    \/ EnterStore
    \/ SpaceLoad
    \/ SpaceStore
    \/ CloseWindow
    \/ TestAnt
    \/ ReadResults
    \/ CloseCanvas
    \/ SendOnClosed
    \/ Exit

SpecQuit == InitQuit /\ [][NextQuit]_vars

-----------------------------------------------------------------------------
(* The specifications of Part I and Part II *)

\* nothing outside the optimizer and the geometry is in use
InitExt == IdleFn /\ IdleCmp /\ IdleVis /\ IdleGen /\ IdleMain

Init == InitOpt /\ InitGeo /\ InitExt

Next ==
    \/ Generate
    \/ Optimize
    \/ Perturb

Spec == Init /\ [][Next]_vars

\* seeds of the scenario of the default progress check
ConvSeeds == { 0, 21 }

\* The scenario of the default progress check: three joints, one Gmax stage,
\* ProgressCheck = 10 and MinChange = 0.001.
InitConv ==
    /\ cfg = CfgDefault
    /\ gainTop = MaxGainConv
    /\ simCap = MaxSimsConv
    /\ rejCap = MaxRejectsConv
    /\ iter = 0
    /\ targets = << "Gmax" >>
    /\ seed \in ConvSeeds
    /\ InitRun
    /\ InitGeo
    /\ InitExt

\* the generator "straight" with three joints; the evaluator fails on the
\* initial geometry or finds its feed resistance inside the band
GenerateStraight ==
    /\ pc = "main"
    /\ \E res \in { r \in EvalResults(0) : ~r.ok \/ ~OutOfBand(r.Zr) } :
          Prepare(<< 0, 0, 0 >>, res)
    /\ UNCHANGED <<geoVars, extVars>>

NextConv ==
    \/ GenerateStraight
    \/ Optimize
    \/ Perturb

SpecConv == InitConv /\ [][NextConv]_vars

\* The geometry scenario: the optimizer stays in its initial state.
InitIdle ==
    /\ IdleOpt
    /\ InitGeo
    /\ InitExt

SpecGeo == InitIdle /\ [][NextGeo]_vars

-----------------------------------------------------------------------------
(* Claims about the optimizer *)

\* the ways a stage returns without an error
OkEnds == { "Converged", "Diverged", "Exhausted", "IterCap" }
\* a stage has returned to the stage loop of main.optimize
StageReturned == pc \in { "optimize", "done" } /\ term \in OkEnds
\* the target of the stage that returned last
LastTarget == IF pc = "optimize" THEN targets[cmpPos] ELSE targets[cmpPos + 1]

\* C1: replay round-trip -- however a stage ends (Converged, Diverged,
\* Exhausted, iteration cap), replaying the track list reproduces the leg the
\* model holds when the run returns.
C1_ReplayRoundTrip ==
    StageReturned => TrackNodes(Track, Num) = Nodes

\* C2: when the evaluator fails inside the optimizer loop, the caller gets
\* the best antenna found so far (not the failing candidate) and the counters
\* of accepted steps and evaluations accumulated up to the failure.
C2_BestOnEvalFailure ==
    (pc = "done" /\ term = "EvalError") =>
        /\ ant = best
        /\ total.NumSteps = acc.steps
        /\ total.NumSims = acc.sims

\* C3: the leg from which the next stage starts perturbing is the leg of the
\* best antenna the previous stage returned, whatever way that stage ended.
C3_NextStageStartsFromBest ==
    (pc = "optimize" /\ term \in OkEnds) => Nodes = ant.nodes

C5_ConvergesEveryBlock ==
    (cfg = CfgDefault /\ term \in { "Running" } \cup OkEnds
       /\ steps > 0 /\ steps % cfg.ProgressCheck = 0
       /\ ~blockGain.nan /\ blockGain.v < cfg.MinChange)
    => (term = "Converged" /\ pc = "done")

\* C5 (amended): the same for every block of 10 accepted steps after the
\* first one; the first block only sets the reference value.
C5_ConvergesLaterBlocks ==
    /\ (cfg = CfgDefault /\ term \in { "Running" } \cup OkEnds
          /\ steps >= 2 * cfg.ProgressCheck /\ steps % cfg.ProgressCheck = 0
          /\ ~blockGain.nan /\ blockGain.v < cfg.MinChange)
       => (term = "Converged" /\ pc = "done")
    /\ (cfg = CfgDefault /\ term = "Converged")
       => (steps >= 2 * cfg.ProgressCheck /\ steps % cfg.ProgressCheck = 0
             /\ blockGain.v < cfg.MinChange)

\* C5 witness: the second block of 10 accepted steps improved the target by
\* less than MinChange and the stage converged
C5_Witness ==
    /\ cfg = CfgDefault /\ term = "Converged" /\ pc = "done"
    /\ steps = 2 * cfg.ProgressCheck
    /\ blockGain.v < cfg.MinChange

\* C6: feed-resistance guard -- the first candidate of the run comes back
\* with 0.5 Ohm: the stage ends Diverged after that one evaluation, returns
\* the initial antenna as best, has no accepted step, and the model's leg is
\* the initial leg.
C6_DivergedOnFirstCall ==
    (StageReturned /\ term = "Diverged" /\ acc.sims = 1 /\ total.NumMthds = 1) =>
        /\ sims = 1
        /\ steps = 0
        /\ ant = bestIn
        /\ ant.nodes = leg0
        /\ Nodes = leg0

-----------------------------------------------------------------------------
(* Claims about the repair pass *)

\* the antenna built by BuildAntenna exists
Built == gpc \in { "built", "again" }

\* C8: after Repair (the FixGeometry(2*d) of BuildAntenna), every pair of
\* segments (i, j) with j - i > 10 has a distance, as Line.Distance measures
\* it, of at least minD.
C8_RepairedDistances ==
    Built =>
      \A i \in 0..(Len(gant.segs) - 1) : \A j \in 0..(Len(gant.segs) - 1) :
         (j - i) > IdxGap =>
            ~DistLess(Distance(gant.segs[i + 1], gant.segs[j + 1], gant.q),
                      2 * SegLen)

\* C9: Repair is idempotent -- a second FixGeometry with the same minD leaves
\* every segment coordinate of the repaired antenna unchanged.
C9_RepairIdempotent ==
    gpc = "again" => SameGeometry(gant2, gant)

\* C10: in every built antenna, also after its repair pass, the k-th mirror
\* segment (index 2k) has the endpoints of the k-th primary segment (index
\* 2k-1) with x negated and y and z unchanged.
C10_MirrorIsReflection ==
    Built =>
      \A k \in 1..Len(gnodes) :
         LET prim == gant.segs[2 * k]
             mirr == gant.segs[2 * k + 1]
         IN  { mirr.start, mirr.end } = { MirrorX(prim.start), MirrorX(prim.end) }

-----------------------------------------------------------------------------
(* Claims about the library functions *)

\* C11: Regions(pos) returns inclusive ranges, ascending and not touching,
\* that together cover exactly the set of indices in pos, so that every
\* maximal run is one range and an isolated index i is the range [i, i],
\* also when it is the largest index of the list.
C11_RegionsCoverIndices ==
    fpc = "Regions" =>
        /\ Separated(fout)
        /\ Covered(fout) = { fin.pos[k] : k \in 1..Len(fin.pos) }

\* C12: for every stage of a comparator and all performances, Compare(p, p)
\* is equal (0), Compare(a, b) is better (+1) exactly when Compare(b, a) is
\* worse (-1), and equal exactly when Compare(b, a) is equal.
C12_CompareAntisymmetric ==
    fpc = "Compare" =>
        /\ fout.aa = 0
        /\ fout.ab = 1 <=> fout.ba = -1
        /\ fout.ab = 0 <=> fout.ba = 0

\* a matched-mode stage decides "better" on performances whose attenuation
\* is finite, and the reverse call has answered
C12_Witness ==
    /\ fpc = "Compare"
    /\ fin.stage = << "Gmean", "matched" >>
    /\ fin.a.Attenuation.kind = "num"
    /\ fin.a # fin.b
    /\ fout.ab = 1

\* C13: for the target Gmean in raw mode lower mean gain is better:
\* Compare(new, old) is better exactly when Gmean_old - Gmean_new exceeds
\* the epsilon.
C13_GmeanLowerIsBetter ==
    fpc = "Compare" /\ fin.stage = << "Gmean", "raw" >> =>
        (fout.ab = 1 <=> fin.b.Gmean - fin.a.Gmean > Eps)

-----------------------------------------------------------------------------
(* Claims about the comparator specification *)

-----------------------------------------------------------------------------
(* Claims about the visualization *)

\* the tasks that left the optimizer's callback or wait in it, in the order
\* the render goroutine deals with them
TaskFlow ==
    shown \o (IF cpc \in { "gate", "update" } THEN << ctask >> ELSE << >>)
          \o outbox

\* C16: pausing, resuming and single-stepping only delay the optimizer.
\* Every snapshot handed off is received exactly once and in the order
\* produced: the tasks on display, the task held by the render goroutine and
\* the tasks still in the callback are the snapshots 1, 2, ... made so far,
\* each once and in order; and the optimizer makes the snapshots of a run
\* without pause: one for the initial geometry, one per accepted step and
\* one per stage that returned.
C16_PauseOnlyDelays ==
    /\ Len(TaskFlow) = made
    /\ \A k \in 1..made : TaskFlow[k].id = k
    /\ made = (IF iniPerf.ok THEN 1 ELSE 0) + acc.steps + total.NumMthds
    /\ currTask = IF shown = << >> THEN NoTask ELSE shown[Len(shown)]
    /\ count = Len(shown) - 1

\* keys were pressed, the rendering was paused and released, and three
\* snapshots went on display
C16_Witness ==
    /\ keys = MaxKeys
    /\ Len(shown) >= 3
    /\ shown[Len(shown)].pos >= 0
    /\ ~waiting

\* C17: the pause gate acts between the handoff of a snapshot and the next
\* perturbation: while the rendering is paused with snapshot n on display
\* and no evaluation was made since snapshot n, the optimizer does not make
\* the evaluation that follows snapshot n.
C17_GateBeforeNextPerturbation ==
    [][ (waiting /\ shown # << >> /\ evals = currTask.evals)
            => evals' = evals ]_vars

-----------------------------------------------------------------------------
(* Claims about the generators *)

\* the leg that the call genCall returns on an instance that was created
\* and initialised for this call only
FreshLeg ==
    GenNodes(genCall.name, GenInit(NewGen, genCall.params, 1).g, genCall.num,
             GenBendMax(genCall.segL), genCall.rnd)

\* C18: generator determinism: a call of a random generator returns the
\* leg that any other call with the same parameters string and the same
\* rng state returns, whatever Init/Nodes calls were made before on the
\* registered instance; in particular the leg of a call on an instance with
\* no earlier calls.
C18_SameLegWhateverHistory ==
    genPc = "called" => SameLeg(genLeg, FreshLeg)

\* the unsmoothed walk of the trespass generator for the call genCall
TrespassWalk ==
    [ok |-> TRUE, den |-> 1,
     th |-> TrespassFrom(1, genCall.num, GenBendMax(genCall.segL),
                         genCall.rnd)]

\* C19: the trespass generator honours smooth=N: for N > 0 its leg is the
\* random walk smoothed over N segments, for N = 0 the unsmoothed walk.
C19_TrespassSmooth ==
    (genPc = "called" /\ genCall.name = "trespass") =>
        SameLeg(genLeg, Smooth2D(TrespassWalk, gens["trespass"].rng))

\* C20: a leg of the stroll generator (unsmoothed) never has a projected
\* x-coordinate below the threshold of the optimizer's leg-validity check:
\* it passes checkGeometry.
C20_StrollPassesCheck ==
    (genPc = "called" /\ genCall.name = "stroll" /\ genLeg.ok
        /\ gens["stroll"].rng = 0)
    => checkGeometry(genLeg.th)

-----------------------------------------------------------------------------
(* Claims about the candidates of the optimizer loop *)

\* C21: every candidate that reaches the evaluator inside the loop of
\* optBend is the leg with exactly one joint changed by a delta with
\* bendMin <= |delta| <= bendStep, the changed joint stays within
\* [-bendMax, bendMax] and the candidate passes checkGeometry; a candidate
\* that fails one of these is reverted (the leg is unchanged) and not
\* evaluated.
C21_OnlyCheckedCandidates ==
    [][ pc = "bend" =>
          LET d == DeltaOf(DrawnRnd)
              p == PickedPos
              valid == /\ 100 * Abs(d) >= bendMax * MinBendPct
                       /\ Abs(d) <= bendStep
                       /\ Abs(Nodes[p + 1] + d) <= bendMax
                       /\ checkGeometry(Candidate)
          IN  /\ evals' # evals =>
                    /\ valid
                    /\ evals' = evals + 1
                    /\ Nodes' \in { Nodes, Candidate }
                    /\ Candidate = [Nodes EXCEPT ![p + 1] = @ + d]
              /\ ~valid => (evals' = evals /\ Nodes' = Nodes)
      ]_vars

\* C21 witness: candidates were discarded before evaluation and evaluated,
\* and one of the evaluated candidates was accepted
C21_Witness ==
    /\ pc = "bend"
    /\ acc.steps >= 1 /\ acc.sims >= 2
    /\ Nodes # leg0
    /\ pos = -1

-----------------------------------------------------------------------------
(* Claims about the z-offset of the repair pass *)

\* the offending regions FixGeometry finds on the antenna as built
BuiltRegions == Regions(CheckDistances(gant0, 2 * SegLen))

\* the z-offset that the loop body of FixGeometry for region r gives to
\* the two ends of segment i (0-based) of the antenna as built, counted in
\* 1/q of the length unit with q the denominator of the result
Offsets(r, i) ==
    LET b == FixRegion(gant0, r, 2 * SegLen)
        f == b.q \div gant0.q
    IN  [q |-> b.q,
         start |-> b.segs[i + 1].start[3] - f * gant0.segs[i + 1].start[3],
         end   |-> b.segs[i + 1].end[3] - f * gant0.segs[i + 1].end[3]]

\* C22: for every offending region [lo, hi] the z-offset of Repair rises
\* linearly from 0 at the outer edge of the leading margin to minD, is
\* minD on every segment of [lo, hi] and falls linearly back to 0 at the
\* outer edge of the trailing margin, also when a margin is cut short by
\* the start or the end of the segment list; the offset at the end of a
\* segment is the offset at the start of the next.
C22_OffsetRampsFromZero ==
    Built =>
      \A k \in 1..Len(BuiltRegions) :
         LET r     == BuiltRegions[k]
             n     == Len(gant0.segs)
             lo    == r[1]
             hi    == r[2]
             start == Max2(1, lo - Bulge)
             end   == Min2(n - 1, hi + Bulge)
         IN  \A i \in 0..(n - 1) :
                LET o    == Offsets(r, i)
                    minD == 2 * SegLen * o.q
                IN  IF i < start \/ i > end
                    THEN o.start = 0 /\ o.end = 0
                    ELSE IF i < lo
                    THEN /\ o.start * (lo - start) = minD * (i - start)
                         /\ o.end * (lo - start) = minD * (i + 1 - start)
                    ELSE IF i > hi
                    THEN /\ o.start * (end - hi) = minD * (end + 1 - i)
                         /\ o.end * (end - hi) = minD * (end - i)
                    ELSE o.start = minD /\ o.end = minD

\* the antenna b has the segments of a, in the same number and order, with
\* the same x and y at every endpoint, and the same feed segment
OnlyZChanged(a, b) ==
    /\ Len(b.segs) = Len(a.segs)
    /\ \A k \in 1..Len(a.segs) :
         /\ b.segs[k].start[1] = a.segs[k].start[1]
         /\ b.segs[k].start[2] = a.segs[k].start[2]
         /\ b.segs[k].end[1] = a.segs[k].end[1]
         /\ b.segs[k].end[2] = a.segs[k].end[2]
    /\ b.segs[1].start[3] * a.q = a.segs[1].start[3] * b.q
    /\ b.segs[1].end[3] * a.q = a.segs[1].end[3] * b.q

\* C23: Repair changes only z-coordinates: the x and y of every segment
\* endpoint, the number and order of the segments and the feed segment
\* (index 0) are the same before and after Repair.
C23_RepairChangesOnlyZ ==
    /\ Built => OnlyZChanged(gant0, gant)
    /\ gpc = "again" => OnlyZChanged(gant, gant2)

\* C23 witness: the repair pass lifted a segment of the built antenna, and
\* a second pass lifted one again
C23_Witness ==
    /\ gpc = "again"
    /\ \E k \in 1..Len(gant.segs) :
          gant.segs[k].start[3] * gant0.q # gant0.segs[k].start[3] * gant.q
    /\ \E k \in 1..Len(gant.segs) :
          gant2.segs[k].end[3] * gant.q # gant.segs[k].end[3] * gant2.q

-----------------------------------------------------------------------------
(* Claims about the stages of the comparator *)

\* C24: every stage of a comparator is evaluated with its own (target,
\* mode) pair: in a chained specification, also one that names the same
\* target twice with different modes, the value computed while the cursor
\* is on stage k is the value of stage k's target in stage k's mode.
C24_StageUsesOwnMode ==
    fpc = "Value" =>
        fout = StdValue(fin.spec[fin.k][1], fin.spec[fin.k][2], fin.p)

\* C25: Comparator.Next returns true exactly when a later stage exists and
\* then advances the cursor by one; on the last stage it returns false and
\* leaves the cursor unchanged; so the cursor stays within
\* [0, number of stages - 1], and no other operation changes the state of
\* the Comparator (its stages and its cursor).
C25_NextOnlyAdvancesCursor ==
    [][ LET last     == cmpPos = Len(targets) - 1
            \* a stage returns without error: the stage loop calls Next
            returned == pc = "bend" /\ pc' \in { "optimize", "done" }
                           /\ term' \in OkEnds
        IN  /\ targets' = targets
            /\ args' = args
            /\ cmpPos' \in 0..(Len(targets) - 1)
            /\ returned =>
                  /\ ~last => (cmpPos' = cmpPos + 1 /\ pc' = "optimize")
                  /\ last => (cmpPos' = cmpPos /\ pc' = "done")
            /\ ~returned => cmpPos' = cmpPos
      ]_vars

\* C25 witness: Next has advanced the cursor to the last stage, and has
\* then been called on the last stage
C25_Witness ==
    /\ StageReturned /\ pc = "done"
    /\ cmpPos = 1 /\ Len(targets) = 2

\* the two legs of the antenna a are connected polylines that start at the
\* ends of the feed segment: the primary segments (1, 3, 5, ...) run
\* outwards from the end of the feed, the mirror segments (2, 4, 6, ...)
\* run inwards to its start, and consecutive segments of a leg share a point
Connected(a) ==
    LET n == (Len(a.segs) - 1) \div 2
        prim(k) == a.segs[2 * k]
        mirr(k) == a.segs[2 * k + 1]
    IN  /\ prim(1).start = a.segs[1].end
        /\ mirr(1).end = a.segs[1].start
        /\ \A k \in 1..(n - 1) :
              /\ prim(k).end = prim(k + 1).start
              /\ mirr(k).start = mirr(k + 1).end

\* C26: wire continuity is preserved by building and repairing: in every
\* built antenna each leg is a connected polyline (the end of a segment is,
\* in x, y and z, the start of the next segment of the same leg), and the
\* first segment of each leg starts at its end of the feed segment.
C26_LegsStayConnected ==
    Built => Connected(gant)

-----------------------------------------------------------------------------
(* Claims about the stored best *)

\* C27: within one optimization stage the stored best changes only at an
\* accepted step, and at every accepted step the value of the new best under
\* the comparator of the stage exceeds the value of the previous best by
\* more than the epsilon (at least one unit of the target value); hence the
\* best a stage ends with is never worse under that comparator than the
\* best it started with.
C27_BestOnlyImproves ==
    /\ [][ pc = "bend" =>
             /\ best' # best =>
                   /\ steps' = steps + 1
                   /\ Len(Track') = Len(Track) + 1
                   /\ Value(best'.perf) - Value(best.perf) >= 1
             /\ steps' # steps => best' # best
         ]_vars
    /\ [](StageReturned =>
             value(LastTarget, best.perf) >= value(LastTarget, bestIn.perf))

\* C27 witness: a stage with two accepted steps has returned
C27_Witness ==
    /\ StageReturned
    /\ steps >= 2
    /\ best # bestIn

-----------------------------------------------------------------------------
(* Claims about termination *)

\* C28: provided every evaluator call returns, each optimization stage
\* terminates: the loop of optBend does not iterate without bound, neither
\* on candidates discarded before evaluation nor on accepted and rejected
\* steps.
C28_StageTerminates ==
    (pc = "bend") ~> (pc # "bend")

-----------------------------------------------------------------------------
(* Claims about the end of a run with visualization *)

\* C29: with visualization the main flow reads the results of the
\* optimization (final antenna, totals, initial performance) only after
\* the optimization goroutine has finished writing them, so what it
\* reports is what the run has produced when it is finished.
C29_ReadsAfterOptimization ==
    kpc \in { "read", "closing", "exit" } =>
        /\ report.finished
        /\ Finished
        /\ report.ant = ant
        /\ report.total = total
        /\ report.iniPerf = iniPerf

\* C30: the channel of the canvas is never sent on after it was closed:
\* when the canvas is closed every Show call of the optimization goroutine
\* has completed and none is still to come.
C30_NoSendAfterClose ==
    /\ chan # "panic"
    /\ chan = "closed" => Finished

=============================================================================
